---- MODULE Spec2Model ----
(***************************************************************************)
(* Model of the merkle-patricia-trie node decoder of go-codec-dageth      *)
(* (trie/unmarshal.go).  One behaviour is one run of DecodeTrieNodeBytes  *)
(* on one input buffer: the RLP container is decoded into nodeFields, the *)
(* node is classified, and the per-kind unpacker writes into the          *)
(* ipld.NodeAssembler.  Every call made on an assembler is appended to    *)
(* log; any of them may return an error.                                  *)
(***************************************************************************)
EXTENDS Integers, Sequences, FiniteSets, TLC

VARIABLES src, codec, nodeFields, nodeKind, decoded, i, pc, log, err

vars == <<src, codec, nodeFields, nodeKind, decoded, i, pc, log, err>>

(***************************************************************************)
(* Bounds of the inputs and constants of the program.                     *)
(***************************************************************************)
\* longest run of bytes that follows the flag byte of a compact key
MaxKeyTail == 1
\* longest byte string (other than 0, 32 and 33 bytes) offered as a child
MaxShortLen == 2
\* largest item count of a container that is neither a 2- nor a 17-item node
MaxItems == 18

\* case 32 of the child length switch
HashLen == 32
\* the loop bound of unpackBranchNode
BranchChildren == 16
\* case 17 of the item count switch
BranchFields == 17

\* cid.EthStateTrie (0x96) and cid.EthStorageTrie (0x98)
Codecs == {150, 152}

(***************************************************************************)
(* Values of interface{} produced by rlp.DecodeBytes: a []byte or a       *)
(* []interface{}.                                                          *)
(***************************************************************************)
Bytes(b) == [kind |-> "bytes", val |-> b]
List(l) == [kind |-> "list", val |-> l]

IsBytes(x) == x.kind = "bytes"
IsList(x) == x.kind = "list"

\* Go's s[k:] on a slice
SliceFrom(s, k) == SubSeq(s, k + 1, Len(s))

(***************************************************************************)
(* NodeKind and its String method.                                        *)
(***************************************************************************)
NodeKindString(k) ==
    CASE k = "EXTENSION_NODE" -> "Extension"
      [] k = "LEAF_NODE" -> "Leaf"
      [] k = "BRANCH_NODE" -> "Branch"
      [] OTHER -> "Unknown"

(***************************************************************************)
(* The assembler as seen by the decoder: st.log are the calls made so     *)
(* far, st.err the error the run is returning ("nil" while it runs on),   *)
(* st.fail the number of calls after which the assembler returns an       *)
(* error (0: it never does).  Every call site of the decoder is followed  *)
(* by "if err != nil { return err }", so a call after an error is not     *)
(* made.                                                                   *)
(***************************************************************************)
Sink(l, f) == [log |-> l, err |-> "nil", fail |-> f]

Call(st, c) ==
    IF st.err # "nil" THEN st
    ELSE IF st.fail = 1
         THEN [log |-> Append(st.log, c), err |-> "sink", fail |-> 0]
         ELSE [log |-> Append(st.log, c), err |-> "nil",
               fail |-> IF st.fail = 0 THEN 0 ELSE st.fail - 1]

\* return fmt.Errorf(e)
Fail(st, e) == IF st.err # "nil" THEN st ELSE [st EXCEPT !.err = e]

AssignKey(ma, s) == <<ma, "AssembleKey.AssignString", s>>
AssignBytes(ma, b) == <<ma, "AssembleValue.AssignBytes", b>>
AssignNull(ma) == <<ma, "AssembleValue.AssignNull", "">>
AssignLink(ma, l) == <<ma, "AssembleValue.AssignLink", l>>
BeginMap(ma, n) == <<ma, "AssembleValue.BeginMap", n>>
FinishMap(ma) == <<ma, "Finish", "">>

\* fmt.Sprintf("Child%d", i)
ChildKey(k) ==
    <<"Child0", "Child1", "Child2", "Child3", "Child4", "Child5", "Child6",
      "Child7", "Child8", "Child9", "Child10", "Child11", "Child12",
      "Child13", "Child14", "Child15">>[k + 1]

(***************************************************************************)
(* nibbleToByte, keccak256ToCid, decodeCompactKey                         *)
(***************************************************************************)
\* expansion with the low nibble of each byte first
RECURSIVE nibbleToByteLowFirst(_)
nibbleToByteLowFirst(k) ==
    IF k = <<>> THEN <<>>
    ELSE <<Head(k) % 16, Head(k) \div 16>> \o nibbleToByteLowFirst(Tail(k))

RECURSIVE nibbleToByte(_)
nibbleToByte(k) ==
    IF k = <<>> THEN <<>>
    ELSE <<Head(k) \div 16, Head(k) % 16>> \o nibbleToByte(Tail(k))

keccak256ToCid(c, h) ==
    [version |-> 1, codec |-> c,
     mh |-> [code |-> "KECCAK_256", length |-> Len(h), digest |-> h]]

\* the flag taken from the low nibble of the first byte
hexPrefixLowNibble(first) == first[1] % 16

\* first[0] / 16, the value the switch of decodeCompactKey is on
hexPrefix(first) == first[1] \div 16

decodeCompactKey(f) ==
    IF ~IsBytes(f[1])
    THEN [panic |-> TRUE, err |-> "panic: interface conversion",
          kind |-> "UNKNOWN_NODE", decoded |-> <<>>]
    ELSE LET first == f[1].val IN
         IF Len(first) = 0
         THEN [panic |-> TRUE, err |-> "panic: index out of range",
               kind |-> "UNKNOWN_NODE", decoded |-> <<>>]
         ELSE CASE hexPrefix(first) = 0 ->
                     [panic |-> FALSE, err |-> "nil", kind |-> "EXTENSION_NODE",
                      decoded |-> <<Bytes(SliceFrom(nibbleToByte(first), 2)), f[2]>>]
                [] hexPrefix(first) = 1 ->
                     [panic |-> FALSE, err |-> "nil", kind |-> "EXTENSION_NODE",
                      decoded |-> <<Bytes(SliceFrom(nibbleToByte(first), 1)), f[2]>>]
                [] hexPrefix(first) = 2 ->
                     [panic |-> FALSE, err |-> "nil", kind |-> "LEAF_NODE",
                      decoded |-> <<Bytes(SliceFrom(nibbleToByte(first), 2)), f[2]>>]
                [] hexPrefix(first) = 3 ->
                     [panic |-> FALSE, err |-> "nil", kind |-> "LEAF_NODE",
                      decoded |-> <<Bytes(SliceFrom(nibbleToByte(first), 1)), f[2]>>]
                [] OTHER ->
                     [panic |-> FALSE, err |-> "unknown hex prefix",
                      kind |-> "UNKNOWN_NODE", decoded |-> <<>>]

(***************************************************************************)
(* The unpackers.  Each takes the assembler state, the name of the map    *)
(* assembler it writes to and the fields, and returns the assembler state *)
(* at its return.                                                          *)
(***************************************************************************)
unpackLeafNode(st, ma, f) ==
    IF ~IsBytes(f[1]) THEN Fail(st, "leaf node requires partial path byte slice")
    ELSE IF ~IsBytes(f[2]) THEN Fail(st, "leaf node requires value byte slice")
    ELSE LET s1 == Call(st, AssignKey(ma, "PartialPath"))
             s2 == Call(s1, AssignBytes(ma, f[1].val))
             s3 == Call(s2, AssignKey(ma, "Value"))
         IN Call(s3, AssignBytes(ma, f[2].val))

\* lines 123-149 and 176-202: the child node is included directly
unpackInlineLeaf(st, ma, childLeaf) ==
    IF Len(childLeaf) # 2
    THEN Fail(st, "unexpected number of entries for leaf node")
    ELSE LET s1 == Call(st, BeginMap(ma, 1))
             s2 == Call(s1, AssignKey("childNode", "Leaf"))
             s3 == Call(s2, BeginMap("childNode", 2))
             s4 == unpackLeafNode(s3, "childNode.leafNodeMA", childLeaf)
             s5 == Call(s4, FinishMap("childNode.leafNodeMA"))
         IN Call(s5, FinishMap("childNode"))

unpackExtensionNode(st, ma, f, c) ==
    IF ~IsBytes(f[1])
    THEN Fail(st, "extension node requires partial path byte slice")
    ELSE LET s1 == Call(st, AssignKey(ma, "PartialPath"))
             s2 == Call(s1, AssignBytes(ma, f[1].val))
             s3 == Call(s2, AssignKey(ma, "Child"))
         IN IF IsBytes(f[2])
            THEN Call(s3, AssignLink(ma, keccak256ToCid(c, f[2].val)))
            ELSE unpackInlineLeaf(s3, ma, f[2].val)

\* the loop body without the switch on the length, as in unpackExtensionNode
unpackBranchChildAnyLength(st, ma, f, k, c) ==
    LET s1 == Call(st, AssignKey(ma, ChildKey(k)))
        child == f[k + 1]
    IN IF IsBytes(child)
       THEN Call(s1, AssignLink(ma, keccak256ToCid(c, child.val)))
       ELSE unpackInlineLeaf(s1, ma, child.val)

\* the loop body with a length switch that has no default case
unpackBranchChildNoDefault(st, ma, f, k, c) ==
    LET s1 == Call(st, AssignKey(ma, ChildKey(k)))
        child == f[k + 1]
    IN IF IsBytes(child)
       THEN CASE Len(child.val) = 0 -> Call(s1, AssignNull(ma))
              [] Len(child.val) = HashLen ->
                    Call(s1, AssignLink(ma, keccak256ToCid(c, child.val)))
              [] OTHER -> s1
       ELSE unpackInlineLeaf(s1, ma, child.val)

\* one iteration of the loop of unpackBranchNode
unpackBranchChild(st, ma, f, k, c) ==
    LET s1 == Call(st, AssignKey(ma, ChildKey(k)))
        child == f[k + 1]
    IN IF IsBytes(child)
       THEN CASE Len(child.val) = 0 -> Call(s1, AssignNull(ma))
              [] Len(child.val) = HashLen ->
                    Call(s1, AssignLink(ma, keccak256ToCid(c, child.val)))
              [] OTHER -> Fail(s1, "branch node child of unexpected length")
       ELSE unpackInlineLeaf(s1, ma, child.val)

\* the end of unpackBranchNode, after the loop
unpackBranchValue(st, ma, f) ==
    LET s1 == Call(st, AssignKey(ma, "Value")) IN
    IF ~IsBytes(f[BranchFields])
    THEN Fail(s1, "branch node 17th member should be a byte array (val)")
    ELSE IF Len(f[BranchFields].val) = 0
         THEN Call(s1, AssignNull(ma))
         ELSE Call(s1, AssignBytes(ma, f[BranchFields].val))

(***************************************************************************)
(* The arms of the switch of DecodeTrieNodeBytes.                         *)
(***************************************************************************)
caseExtension(st, f, c) ==
    LET s1 == Call(st, AssignKey("ma", NodeKindString("EXTENSION_NODE")))
        s2 == Call(s1, BeginMap("ma", 2))
        s3 == unpackExtensionNode(s2, "extNodeMA", f, c)
    IN Call(s3, FinishMap("extNodeMA"))

caseLeaf(st, f, c) ==
    LET s1 == Call(st, AssignKey("ma", NodeKindString("LEAF_NODE")))
        s2 == Call(s1, BeginMap("ma", 2))
        s3 == unpackLeafNode(s2, "leafNodeMA", f)
    IN Call(s3, FinishMap("leafNodeMA"))

caseBranchBegin(st) ==
    LET s1 == Call(st, AssignKey("ma", NodeKindString("BRANCH_NODE")))
    IN Call(s1, BeginMap("ma", BranchFields))

(***************************************************************************)
(* The inputs.                                                             *)
(***************************************************************************)
RECURSIVE SeqsUpTo(_, _)
SeqsUpTo(S, n) ==
    IF n = 0 THEN {<<>>}
    ELSE LET shorter == SeqsUpTo(S, n - 1)
         IN shorter \cup {Append(s, x) : s \in shorter, x \in S}

Repeat(b, n) == [k \in 1..n |-> b]

EmptyBytes == Bytes(<<>>)
HashBytes == Bytes(Repeat(171, HashLen))

\* compact keys: every flag byte, followed by up to MaxKeyTail bytes
CompactKeys ==
    {Bytes(<<b>> \o t) : b \in 0..255, t \in SeqsUpTo({165}, MaxKeyTail)}

\* 2-item lists that may stand where a child is expected
EmbeddedLists ==
    { List(<<Bytes(<<32>>), Bytes(<<1>>)>>),
      List(<<Bytes(<<49, 35>>), Bytes(<<>>)>>),
      List(<<Bytes(<<0>>), Bytes(<<1>>)>>),
      List(<<Bytes(<<17>>), HashBytes>>),
      List(<<Bytes(<<>>), Bytes(<<1>>)>>),
      List(<<List(<<>>), Bytes(<<1>>)>>),
      List(<<Bytes(<<32>>), List(<<>>)>>) }

ChildFields ==
    {EmptyBytes, HashBytes, Bytes(Repeat(171, HashLen + 1)),
     List(<<>>), List(<<EmptyBytes, EmptyBytes, EmptyBytes>>)}
    \cup {Bytes(Repeat(171, n)) : n \in 1..MaxShortLen}
    \cup EmbeddedLists

TwoItemNodes ==
    {<<k, v>> : k \in CompactKeys \cup {EmptyBytes, List(<<>>), List(<<Bytes(<<32>>)>>)},
                v \in ChildFields}

BranchValues == {EmptyBytes, Bytes(<<97, 98, 99>>), List(<<>>)}

\* what the neighbour of the child under test may be
NeighbourFields ==
    {EmptyBytes, HashBytes, Bytes(<<171>>),
     List(<<Bytes(<<32>>), Bytes(<<1>>)>>),
     List(<<EmptyBytes, EmptyBytes, EmptyBytes>>)}

\* 17-item nodes: one child drawn from ChildFields, its neighbour from
\* NeighbourFields, the others empty
BranchNodes ==
    {[k \in 1..BranchFields |->
         IF k = BranchFields THEN v
         ELSE IF k = p THEN c1
         ELSE IF k = (p % BranchChildren) + 1 THEN c2
         ELSE EmptyBytes] :
       p \in 1..BranchChildren, c1 \in ChildFields, c2 \in NeighbourFields,
       v \in BranchValues}

OtherNodes ==
    {Repeat(x, n) : x \in {EmptyBytes, HashBytes},
                    n \in (0..MaxItems) \ {2, BranchFields}}

Inputs ==
    {[valid |-> FALSE, items |-> <<>>]}
    \cup {[valid |-> TRUE, items |-> n] :
            n \in TwoItemNodes \cup BranchNodes \cup OtherNodes}

(***************************************************************************)
(* The run of DecodeTrieNodeBytes.                                        *)
(***************************************************************************)
Init ==
    /\ src \in Inputs
    /\ codec \in Codecs
    /\ nodeFields = <<>>
    /\ nodeKind = "UNKNOWN_NODE"
    /\ decoded = <<>>
    /\ i = 0
    /\ pc = "start"
    /\ log = <<>>
    /\ err = "nil"

\* the calls the step would make if none of them failed
NewCalls(st) == Len(st.log) - Len(log)

\* lines 36-43: rlp.DecodeBytes and na.BeginMap(1)
DecodeBegin ==
    /\ pc = "start"
    /\ IF ~src.valid
       THEN /\ err' = "rlp"
            /\ pc' = "done"
            /\ UNCHANGED <<nodeFields, log>>
       ELSE \E f \in 0..1 :
              LET st == Call(Sink(log, f), <<"na", "BeginMap", 1>>) IN
              /\ nodeFields' = src.items
              /\ log' = st.log
              /\ err' = st.err
              /\ pc' = IF st.err = "nil" THEN "switch" ELSE "done"
    /\ UNCHANGED <<src, codec, nodeKind, decoded, i>>

\* lines 45-49: case 2, decodeCompactKey
Classify ==
    /\ pc = "switch"
    /\ Len(nodeFields) = 2
    /\ LET r == decodeCompactKey(nodeFields) IN
       /\ nodeKind' = r.kind
       /\ decoded' = r.decoded
       /\ err' = r.err
       /\ pc' = IF r.panic THEN "panic"
                ELSE IF r.err # "nil" THEN "done" ELSE "kind"
    /\ UNCHANGED <<src, codec, nodeFields, i, log>>

\* lines 50-81: switch nodeKind
CaseKind ==
    /\ pc = "kind"
    /\ \E f \in 0..NewCalls(IF nodeKind = "EXTENSION_NODE"
                            THEN caseExtension(Sink(log, 0), decoded, codec)
                            ELSE caseLeaf(Sink(log, 0), decoded, codec)) :
         LET st == CASE nodeKind = "EXTENSION_NODE" ->
                         caseExtension(Sink(log, f), decoded, codec)
                     [] nodeKind = "LEAF_NODE" ->
                         caseLeaf(Sink(log, f), decoded, codec)
                     [] OTHER -> Fail(Sink(log, f), "unrecognized trie node type")
         IN /\ log' = st.log
            /\ err' = st.err
            /\ pc' = IF st.err = "nil" THEN "finish" ELSE "done"
    /\ UNCHANGED <<src, codec, nodeFields, nodeKind, decoded, i>>

\* lines 82-89: case 17, up to the call of unpackBranchNode
CaseBranch ==
    /\ pc = "switch"
    /\ Len(nodeFields) = BranchFields
    /\ \E f \in 0..NewCalls(caseBranchBegin(Sink(log, 0))) :
         LET st == caseBranchBegin(Sink(log, f)) IN
         /\ log' = st.log
         /\ err' = st.err
         /\ pc' = IF st.err = "nil" THEN "branch" ELSE "done"
    /\ i' = 0
    /\ UNCHANGED <<src, codec, nodeFields, nodeKind, decoded>>

\* lines 153-203: one iteration of the loop of unpackBranchNode
BranchChild ==
    /\ pc = "branch"
    /\ i < BranchChildren
    /\ \E f \in 0..NewCalls(unpackBranchChild(Sink(log, 0), "branchNodeMA",
                                              nodeFields, i, codec)) :
         LET st == unpackBranchChild(Sink(log, f), "branchNodeMA",
                                     nodeFields, i, codec) IN
         /\ log' = st.log
         /\ err' = st.err
         /\ pc' = IF st.err = "nil" THEN "branch" ELSE "done"
         /\ i' = IF st.err = "nil" THEN i + 1 ELSE i
    /\ UNCHANGED <<src, codec, nodeFields, nodeKind, decoded>>

\* lines 204-214 and 93-95: the Value entry, then branchNodeMA.Finish()
BranchValue ==
    /\ pc = "branch"
    /\ i = BranchChildren
    /\ \E f \in 0..NewCalls(Call(unpackBranchValue(Sink(log, 0), "branchNodeMA",
                                                   nodeFields),
                                 FinishMap("branchNodeMA"))) :
         LET st == Call(unpackBranchValue(Sink(log, f), "branchNodeMA", nodeFields),
                        FinishMap("branchNodeMA")) IN
         /\ log' = st.log
         /\ err' = st.err
         /\ pc' = IF st.err = "nil" THEN "finish" ELSE "done"
    /\ UNCHANGED <<src, codec, nodeFields, nodeKind, decoded, i>>

\* a default case that returns an error
CaseOtherRejected ==
    /\ pc = "switch"
    /\ Len(nodeFields) \notin {2, BranchFields}
    /\ pc' = "done"
    /\ err' = "unexpected number of node fields"
    /\ UNCHANGED <<src, codec, nodeFields, nodeKind, decoded, i, log>>

\* line 96: the switch has no default case
CaseOther ==
    /\ pc = "switch"
    /\ Len(nodeFields) \notin {2, BranchFields}
    /\ pc' = "finish"
    /\ UNCHANGED <<src, codec, nodeFields, nodeKind, decoded, i, log, err>>

\* line 97: return ma.Finish()
Finish ==
    /\ pc = "finish"
    /\ \E f \in 0..1 :
         LET st == Call(Sink(log, f), FinishMap("ma")) IN
         /\ log' = st.log
         /\ err' = st.err
    /\ pc' = "done"
    /\ UNCHANGED <<src, codec, nodeFields, nodeKind, decoded, i>>

Next ==
    \/ DecodeBegin
    \/ Classify
    \/ CaseKind
    \/ CaseBranch
    \/ BranchChild
    \/ BranchValue
    \/ CaseOther
    \/ Finish

Spec == Init /\ [][Next]_vars

(***************************************************************************)
(* Predicates on the input of the run and on the calls it has made.       *)
(***************************************************************************)
Items == src.items

TwoItemNode == src.valid /\ Len(Items) = 2
BranchNode == src.valid /\ Len(Items) = BranchFields
OtherNode == src.valid /\ Len(Items) \notin {2, BranchFields}

\* the run has returned to its caller / has been ended by a panic
Returned == pc = "done"
Panicked == pc = "panic"

\* na.BeginMap(1) was accepted and the switch on the node kind was entered
Classified ==
    \/ pc \in {"kind", "finish", "panic"}
    \/ pc = "done" /\ ~(Len(log) = 1 /\ err = "sink") /\ err # "rlp"

\* the first field of a 2-item node is a byte string that has a first byte
HasFlag == TwoItemNode /\ IsBytes(Items[1]) /\ Len(Items[1].val) > 0
FlagNibble == Items[1].val[1] \div 16

KindName == IF FlagNibble \in {0, 1} THEN "Extension" ELSE "Leaf"
KindMA == IF FlagNibble \in {0, 1} THEN "extNodeMA" ELSE "leafNodeMA"

\* the positions of log that hold call c
Positions(c) == {k \in 1..Len(log) : log[k] = c}

IsValueCall(c) ==
    c[2] \in {"AssembleValue.AssignBytes", "AssembleValue.AssignNull",
              "AssembleValue.AssignLink", "AssembleValue.BeginMap"}
IsKeyCall(c) == c[2] = "AssembleKey.AssignString"

\* nibble j (from 1) of byte string b, high nibble of each byte first
NibbleAt(b, j) ==
    IF j % 2 = 1 THEN b[(j + 1) \div 2] \div 16 ELSE b[j \div 2] % 16

\* the nibbles of b without its first drop nibbles
PathAfter(b, drop) == [k \in 1..(2 * Len(b) - drop) |-> NibbleAt(b, k + drop)]

ExpectedPath ==
    PathAfter(Items[1].val, IF FlagNibble % 2 = 1 THEN 1 ELSE 2)

\* the keys written to the Branch map, in the order written
IsBranchKey(c) == c[1] = "branchNodeMA" /\ IsKeyCall(c)
BranchKeys == SelectSeq(log, IsBranchKey)
BranchKeyAt(k) ==
    AssignKey("branchNodeMA", IF k <= BranchChildren THEN ChildKey(k - 1) ELSE "Value")

\* a field the child switch accepts: empty, a hash, or a list of two byte strings
IsLeafList(x) ==
    IsList(x) /\ Len(x.val) = 2 /\ IsBytes(x.val[1]) /\ IsBytes(x.val[2])
ValidChild(x) ==
    \/ IsBytes(x) /\ Len(x.val) \in {0, HashLen}
    \/ IsLeafList(x)
BadLength(x) == IsBytes(x) /\ Len(x.val) \notin {0, HashLen}

\* a 2-item list that is the encoding of a Leaf: flag nibble 2 or 3
CarriesLeafFlag(x) ==
    /\ IsLeafList(x)
    /\ Len(x.val[1].val) > 0
    /\ x.val[1].val[1] \div 16 \in {2, 3}

\* the call that wrote a link to hash h under the codec of this run
IsLinkTo(c, h) ==
    /\ c[2] = "AssembleValue.AssignLink"
    /\ c[3].codec = codec
    /\ c[3].version = 1
    /\ c[3].mh.code = "KECCAK_256"
    /\ c[3].mh.digest = h

(***************************************************************************)
(* C1: a 2-item node whose first field is a non-empty byte string is      *)
(* classified by the high nibble of its first byte: 0 or 1 writes the     *)
(* Extension key and begins its map, 2 or 3 the Leaf key and its map, and *)
(* 4..15 returns "unknown hex prefix" with no node-kind key written.      *)
(***************************************************************************)
C1_Classification ==
    (HasFlag /\ Classified) =>
        /\ ~Panicked
        /\ FlagNibble >= 4 =>
              /\ Returned
              /\ err = "unknown hex prefix"
              /\ log = << <<"na", "BeginMap", 1>> >>
        /\ FlagNibble <= 3 =>
              /\ err # "unknown hex prefix"
              /\ nodeKind = (IF FlagNibble <= 1 THEN "EXTENSION_NODE" ELSE "LEAF_NODE")
              /\ pc # "kind" =>
                    /\ Len(log) >= 2
                    /\ log[2] = AssignKey("ma", KindName)
                    /\ Len(log) >= 3 => log[3] = BeginMap("ma", 2)
                    /\ \A k \in 1..Len(log) :
                          log[k][1] \in {"extNodeMA", "leafNodeMA"} => log[k][1] = KindMA
              /\ (Returned /\ err = "nil") =>
                    /\ log[Len(log) - 1] = FinishMap(KindMA)
                    /\ log[Len(log)] = FinishMap("ma")

C1_Witness ==
    /\ HasFlag /\ Returned /\ err = "nil"
    /\ FlagNibble = 3
    /\ log[2] = AssignKey("ma", "Leaf")

(***************************************************************************)
(* C2: the PartialPath written for a top-level 2-item node is the nibble  *)
(* expansion of the first field (high nibble first, each in 0..15)        *)
(* without its first nibble when the flag nibble is odd and without its   *)
(* first two when it is even; 0x20 gives the empty path, 0x11 gives [1].  *)
(***************************************************************************)
C2_PartialPath ==
    (HasFlag /\ FlagNibble <= 3) =>
        /\ \A k \in Positions(AssignKey(KindMA, "PartialPath")) :
              k < Len(log) =>
                 /\ log[k + 1] = AssignBytes(KindMA, ExpectedPath)
                 /\ \A j \in 1..Len(log[k + 1][3]) : log[k + 1][3][j] \in 0..15
                 /\ Len(log[k + 1][3]) =
                       2 * Len(Items[1].val) - (IF FlagNibble \in {1, 3} THEN 1 ELSE 2)
                 /\ Items[1].val = <<32>> => log[k + 1][3] = <<>>
                 /\ Items[1].val = <<17>> => log[k + 1][3] = <<1>>
        /\ (Returned /\ err = "nil") =>
              Cardinality(Positions(AssignKey(KindMA, "PartialPath"))) = 1

C2_Witness ==
    /\ HasFlag /\ Returned /\ err = "nil"
    /\ Items[1].val = <<17, 165>>
    /\ \E k \in 1..Len(log) : log[k] = AssignBytes("extNodeMA", <<1, 10, 5>>)

(***************************************************************************)
(* C3: a 17-item node that decodes writes exactly the 17 entries Child0,  *)
(* ..., Child15, Value in that order; child i is null exactly when field  *)
(* i is an empty byte string, a link to field i under the caller's codec  *)
(* exactly when it is a 32-byte string, an inline Leaf map exactly when   *)
(* it is a 2-item list; Value is null for an empty field 16 and its bytes *)
(* otherwise.                                                              *)
(***************************************************************************)
C3_ChildEntry(k) ==
    LET fld == Items[k]
        at == CHOOSE j \in 1..Len(log) : log[j] = BranchKeyAt(k)
        v == log[at + 1]
    IN /\ v[1] = "branchNodeMA" /\ IsValueCall(v)
       /\ (v[2] = "AssembleValue.AssignNull") <=> (IsBytes(fld) /\ Len(fld.val) = 0)
       /\ (v[2] = "AssembleValue.AssignLink") <=> (IsBytes(fld) /\ Len(fld.val) = HashLen)
       /\ (v[2] = "AssembleValue.BeginMap") <=> (IsList(fld) /\ Len(fld.val) = 2)
       /\ v[2] = "AssembleValue.AssignLink" => IsLinkTo(v, fld.val)
       /\ v[2] = "AssembleValue.BeginMap" =>
             /\ v[3] = 1
             /\ log[at + 2] = AssignKey("childNode", "Leaf")
             /\ log[at + 3] = BeginMap("childNode", 2)
             /\ log[at + 4] = AssignKey("childNode.leafNodeMA", "PartialPath")
             /\ log[at + 5] = AssignBytes("childNode.leafNodeMA", fld.val[1].val)
             /\ log[at + 6] = AssignKey("childNode.leafNodeMA", "Value")
             /\ log[at + 7] = AssignBytes("childNode.leafNodeMA", fld.val[2].val)
             /\ log[at + 8] = FinishMap("childNode.leafNodeMA")
             /\ log[at + 9] = FinishMap("childNode")
             /\ log[at + 10][1] = "branchNodeMA"

C3_BranchEntries ==
    (BranchNode /\ Returned /\ err = "nil") =>
        /\ BranchKeys = [k \in 1..BranchFields |-> BranchKeyAt(k)]
        /\ Cardinality({k \in 1..Len(log) :
                           log[k][1] = "branchNodeMA" /\ IsValueCall(log[k])}) = BranchFields
        /\ \A k \in 1..BranchChildren : C3_ChildEntry(k)
        /\ LET at == CHOOSE j \in 1..Len(log) : log[j] = BranchKeyAt(BranchFields)
           IN /\ IsBytes(Items[BranchFields])
              /\ log[at + 1] = IF Len(Items[BranchFields].val) = 0
                               THEN AssignNull("branchNodeMA")
                               ELSE AssignBytes("branchNodeMA", Items[BranchFields].val)
              /\ log[at + 2] = FinishMap("branchNodeMA")

\* the node of Scenario A, and one with a link, an inline Leaf and a value
C3_Witness ==
    /\ BranchNode /\ Returned /\ err = "nil"
    /\ Items[6] = HashBytes
    /\ Items[7] = List(<<Bytes(<<32>>), Bytes(<<1>>)>>)
    /\ Len(Items[BranchFields].val) = 3

(***************************************************************************)
(* C7: a container whose item count is neither 2 nor 17 is not an error   *)
(* of the decoder: the top-level map is begun, no key and no value is     *)
(* written, the map is finished and the result of Finish is returned.     *)
(***************************************************************************)
C7_OtherCountEmptyOutput ==
    OtherNode =>
        /\ \A k \in 1..Len(log) : ~IsKeyCall(log[k]) /\ ~IsValueCall(log[k])
        /\ err \in {"nil", "sink"}
        /\ ~Panicked
        /\ Returned =>
              /\ Len(log) \in {1, 2}
              /\ log[1] = <<"na", "BeginMap", 1>>
              /\ Len(log) = 2 => log[2] = FinishMap("ma")
              /\ err = "nil" => Len(log) = 2

C7_Witness ==
    /\ OtherNode /\ Returned /\ err = "nil"
    /\ Len(Items) = 3
    /\ log = << <<"na", "BeginMap", 1>>, FinishMap("ma") >>

(***************************************************************************)
(* C8 as stated: a 17-item node with a child byte string of length        *)
(* neither 0 nor 32 fails with the invalid-child-length error, the        *)
(* children before that one written and none after it (the assembler      *)
(* accepting every call).                                                  *)
(***************************************************************************)
C8_AnyBadLengthChild ==
    (BranchNode /\ Returned /\ err # "sink"
       /\ \E k \in 1..BranchChildren : BadLength(Items[k])) =>
        /\ err = "branch node child of unexpected length"
        /\ \E k \in 1..BranchChildren :
              /\ BadLength(Items[k])
              /\ BranchKeys = [j \in 1..k |-> BranchKeyAt(j)]

\* the first child field the child switch does not accept (0: there is none)
FirstInvalidChild ==
    IF \E k \in 1..BranchChildren : ~ValidChild(Items[k])
    THEN CHOOSE k \in 1..BranchChildren :
            /\ ~ValidChild(Items[k])
            /\ \A j \in 1..(k - 1) : ValidChild(Items[j])
    ELSE 0

(***************************************************************************)
(* C8 amended: when the first child field that is not an empty byte       *)
(* string, a 32-byte string or a list of two byte strings is a byte       *)
(* string of length neither 0 nor 32, decode (the assembler accepting the *)
(* calls) fails with the invalid-child-length error; the key of that      *)
(* child and the entries of the children before it are written in order,  *)
(* and no value for it, no later child and no Value entry is written.     *)
(***************************************************************************)
C8_FirstInvalidChildBadLength ==
    (BranchNode /\ FirstInvalidChild > 0 /\ BadLength(Items[FirstInvalidChild])) =>
        /\ \A k \in 1..Len(BranchKeys) :
              k <= FirstInvalidChild /\ BranchKeys[k] = BranchKeyAt(k)
        /\ err \in {"nil", "sink", "branch node child of unexpected length"}
        /\ (Returned /\ err # "sink") =>
              /\ err = "branch node child of unexpected length"
              /\ BranchKeys = [j \in 1..FirstInvalidChild |-> BranchKeyAt(j)]
              /\ log[Len(log)] = BranchKeyAt(FirstInvalidChild)
              /\ \A k \in 1..(FirstInvalidChild - 1) :
                    \E j \in 1..(Len(log) - 1) :
                       /\ log[j] = BranchKeyAt(k)
                       /\ log[j + 1][1] = "branchNodeMA"
                       /\ IsValueCall(log[j + 1])
              /\ \A k \in 1..Len(log) : log[k] # FinishMap("branchNodeMA")

C8_Witness ==
    /\ BranchNode /\ Returned
    /\ FirstInvalidChild = 6
    /\ Items[5] = HashBytes
    /\ BadLength(Items[6])
    /\ err = "branch node child of unexpected length"
    /\ Len(BranchKeys) = 6

(***************************************************************************)
(* C4: the child of an Extension is resolved like a Branch child: an      *)
(* empty byte string gives null, a 32-byte string a link, a byte string   *)
(* of another length fails, a list of length other than 2 fails.          *)
(***************************************************************************)
C4_ExtensionChildResolved ==
    (HasFlag /\ FlagNibble <= 1 /\ Returned /\ err # "sink") =>
        LET child == Items[2]
            at == Positions(AssignKey("extNodeMA", "Child"))
        IN /\ (IsBytes(child) /\ Len(child.val) = 0) =>
                 /\ err = "nil"
                 /\ \A k \in at : log[k + 1] = AssignNull("extNodeMA")
           /\ (IsBytes(child) /\ Len(child.val) = HashLen) =>
                 /\ err = "nil"
                 /\ \A k \in at : IsLinkTo(log[k + 1], child.val)
           /\ BadLength(child) => err \notin {"nil", "sink"}
           /\ (IsList(child) /\ Len(child.val) # 2) => err \notin {"nil", "sink"}

(***************************************************************************)
(* C5: decode succeeds on a node with a 2-item list as a child (of a      *)
(* Branch or of an Extension) only if that list is a Leaf: its first item *)
(* a byte string with flag nibble 2 or 3, its second a byte string.       *)
(***************************************************************************)
C5_EmbeddedOnlyLeaf ==
    (src.valid /\ Returned /\ err = "nil") =>
        /\ BranchNode =>
              \A k \in 1..BranchChildren :
                 (IsList(Items[k]) /\ Len(Items[k].val) = 2) => CarriesLeafFlag(Items[k])
        /\ (HasFlag /\ FlagNibble <= 1) =>
              ((IsList(Items[2]) /\ Len(Items[2].val) = 2) => CarriesLeafFlag(Items[2]))

(***************************************************************************)
(* C6: a 2-item node whose first field is a list makes decode return a    *)
(* type error to its caller.                                               *)
(***************************************************************************)
C6_ListKeyReturnsError ==
    (TwoItemNode /\ IsList(Items[1]) /\ Classified) =>
        (Returned /\ err \notin {"nil", "sink"})

(***************************************************************************)
(* C9: the first failing step ends the run with that error returned to    *)
(* the caller, no call on the assembler after it and no Finish of the     *)
(* top-level map; the run succeeds only when the top-level Finish was     *)
(* called and succeeded.                                                   *)
(***************************************************************************)
C9_FirstErrorReturned ==
    /\ (Returned \/ Panicked) =>
          /\ Returned
          /\ err = "nil" => (Len(log) > 0 /\ log[Len(log)] = FinishMap("ma"))
          /\ err # "nil" =>
                \A k \in 1..Len(log) :
                   log[k] = FinishMap("ma") => (k = Len(log) /\ err = "sink")
    /\ err # "nil" => (Returned \/ Panicked)

(***************************************************************************)
(* C10: a 2-item node whose first field is the empty byte string makes    *)
(* decode return an error to its caller; it does not read a first byte    *)
(* that is not there and is not ended by a panic.                          *)
(***************************************************************************)
C10_EmptyKeyReturnsError ==
    (TwoItemNode /\ IsBytes(Items[1]) /\ Len(Items[1].val) = 0 /\ Classified) =>
        (Returned /\ ~Panicked /\ err \notin {"nil", "sink"})

\* what of C9 holds of the runs that no panic ends
ReturnedRunsPropagate ==
    /\ Returned =>
          /\ err = "nil" => (Len(log) > 0 /\ log[Len(log)] = FinishMap("ma"))
          /\ err # "nil" =>
                \A k \in 1..Len(log) :
                   log[k] = FinishMap("ma") => (k = Len(log) /\ err = "sink")
    /\ err # "nil" => (Returned \/ Panicked)
    /\ Panicked => ~HasFlag

====
